---- MODULE Spec2Model ----
(***************************************************************************)
(* Model of the load testing client src/main.py: the shared statistics    *)
(* counters and their lock, the burst worker (client_worker), the         *)
(* sustained worker (sustained_client_worker), the progress monitor and   *)
(* the two run controllers (run_load_test, run_sustained_load_test),      *)
(* started from the menu of the __main__ block.                           *)
(*                                                                         *)
(* The server is the environment: every connect, write and read picks its *)
(* outcome nondeterministically.  Time is a discrete clock that only the  *)
(* sustained mode reads.                                                  *)
(***************************************************************************)
EXTENDS Integers, Sequences, FiniteSets, TLC

(* ---------------------------- bounds ----------------------------------- *)
\* default NUM_CLIENTS (100 in the source) and largest client count typed in
MaxClients == 2
\* default TOTAL_MESSAGES (10000 in the source) and largest total typed in
MaxTotal == 4
\* duration_seconds of the sustained run (60 in the source), in clock ticks
Duration == 2
\* update_stats calls made by each caller of the counter harness
MaxCalls == 1

(* ---------------------------- constants -------------------------------- *)
\* sock.settimeout(10), in milliseconds
CONNECT_TIMEOUT_MS == 10000
\* sock.settimeout(0.5), in milliseconds
ACK_TIMEOUT_MS == 500

VARIABLES
  ctl,                 \* position of the main thread
  mode,                \* "none", "burst" or "sustained"
  TOTAL_MESSAGES, NUM_CLIENTS, MESSAGES_PER_CLIENT,
  stats_lock,          \* holder of stats_lock
  total_sent, total_received, failed_connections, failed_sends,
  start_time, end_time, now,
  launched,            \* number of worker threads started so far
  joined,              \* number of worker threads joined so far
  result_queue,        \* sequence of result tuples
  mon,                 \* position of the monitor_progress thread
  pc,                  \* position of each worker thread
  i, sent, received, failed_send,   \* locals of each worker
  sock,                \* "none", "open" or "closed", per worker
  timeout,             \* current timeout of each worker's socket (ms)
  args, ret,           \* arguments and continuation of a pending update_stats
  tmp, fld,            \* bytecode-level update_stats: loaded value, field
  calls,               \* harness: update_stats calls issued per caller
  \* history variables
  probe,               \* "none", "ok" or "failed"
  evt,                 \* network outcome of a burst worker's iteration
  writes,              \* message indices of the write attempts, per worker
  net,                 \* per worker counts of network outcomes
  lateWrites,          \* writes begun at or after end_time, per worker
  report,              \* counters printed by the final report
  applied              \* sum of the deltas passed to update_stats

cfgVars == <<TOTAL_MESSAGES, NUM_CLIENTS, MESSAGES_PER_CLIENT>>
counters == <<total_sent, total_received, failed_connections, failed_sends>>
clockVars == <<start_time, end_time, now>>
ctlVars == <<ctl, mode, launched, joined, report, probe>>
localVars == <<i, sent, received, failed_send, sock, timeout>>
callVars == <<args, ret>>
harnessVars == <<tmp, fld, calls, applied>>
histVars == <<evt, writes, net, lateWrites>>
workerVars == <<pc, localVars, callVars, histVars>>
vars == <<ctlVars, cfgVars, stats_lock, counters, clockVars, result_queue,
          mon, workerVars, harnessVars>>

(* ---------------------------- helpers ---------------------------------- *)
Workers == 0..(MaxClients - 1)

\* range(n)
Range(n) == 0..(n - 1)

\* Python's a // b for b # 0 (rounds towards minus infinity)
FloorDiv_RoundUp(a, b) ==
  IF b > 0 THEN (a + b - 1) \div b ELSE (0 - a - b - 1) \div (0 - b)
FloorDiv(a, b) == IF b > 0 THEN a \div b ELSE (0 - a) \div (0 - b)

\* what the operator can type at an int(input(...)) prompt
InputTotals == {-1, 0, MaxTotal - 1}
InputClients == (-1)..MaxClients

Unlocked == <<"free", 0>>
MainThread == <<"main", 0>>
MonitorThread == <<"monitor", 0>>
WorkerThread(w) == <<"worker", w>>

\* Lock.acquire() returns only when nobody holds the lock
CanAcquire_NoLock(t) == TRUE
CanAcquire(t) == stats_lock = Unlocked

NoDelta == <<0, 0, 0, 0>>
SentDelta_AsReceived == <<0, 1, 0, 0>>
SentDelta == <<1, 0, 0, 0>>
ReceivedDelta_AsSent == <<1, 0, 0, 0>>
ReceivedDelta == <<0, 1, 0, 0>>
FailedConnDelta_AsFailedSend == <<0, 0, 0, 1>>
FailedConnDelta == <<0, 0, 1, 0>>
FailedSendDelta == <<0, 0, 0, 1>>
Deltas == {SentDelta, ReceivedDelta, FailedConnDelta, FailedSendDelta}

Add4(a, b) == <<a[1] + b[1], a[2] + b[2], a[3] + b[3], a[4] + b[4]>>

NoNet == [sendOk |-> 0, sendFail |-> 0, ack |-> 0, noAck |-> 0, recvErr |-> 0,
          connFail |-> 0, sockErr |-> 0]

\* Thread.is_alive(): started and not yet finished
IsAlive(w) == pc[w] \notin {"idle", "done"}

\* the interpreter is still running (daemon threads die with the main thread)
ProcessAlive == ctl \notin {"done", "aborted", "invalid", "crashed"}

(* ---------------------------- initial state ---------------------------- *)
\* the module-level globals and every thread not yet started
Globals ==
  /\ mode = "none"
  /\ TOTAL_MESSAGES = MaxTotal
  /\ NUM_CLIENTS = MaxClients
  /\ MESSAGES_PER_CLIENT = FloorDiv(MaxTotal, MaxClients)
  /\ stats_lock = Unlocked
  /\ total_sent = 0
  /\ total_received = 0
  /\ failed_connections = 0
  /\ failed_sends = 0
  /\ start_time = -1
  /\ end_time = -1
  /\ now = 0
  /\ launched = 0
  /\ joined = 0
  /\ result_queue = <<>>
  /\ mon = "off"
  /\ pc = [w \in Workers |-> "idle"]
  /\ i = [w \in Workers |-> 0]
  /\ sent = [w \in Workers |-> 0]
  /\ received = [w \in Workers |-> 0]
  /\ failed_send = [w \in Workers |-> 0]
  /\ sock = [w \in Workers |-> "none"]
  /\ timeout = [w \in Workers |-> 0]
  /\ args = [w \in Workers |-> NoDelta]
  /\ ret = [w \in Workers |-> "idle"]
  /\ tmp = [w \in Workers |-> 0]
  /\ fld = [w \in Workers |-> 0]
  /\ calls = [w \in Workers |-> 0]
  /\ probe = "none"
  /\ evt = [w \in Workers |-> "none"]
  /\ writes = [w \in Workers |-> <<>>]
  /\ net = [w \in Workers |-> NoNet]
  /\ lateWrites = [w \in Workers |-> 0]
  /\ report = <<>>
  /\ applied = NoDelta

Init == ctl = "main" /\ Globals

(* ---------------------------- __main__ --------------------------------- *)
\* choice "1", or any unrecognized choice: run_load_test() with the defaults
ChooseBurst ==
  /\ ctl = "main"
  /\ ctl' = "probe"
  /\ mode' = "burst"
  /\ UNCHANGED <<launched, joined, report, probe, cfgVars, stats_lock,
                 counters, clockVars, result_queue, mon, workerVars,
                 harnessVars>>

\* choice "2": run_sustained_load_test(60)
ChooseSustained ==
  /\ ctl = "main"
  /\ ctl' = "s_start"
  /\ mode' = "sustained"
  /\ UNCHANGED <<launched, joined, report, probe, cfgVars, stats_lock,
                 counters, clockVars, result_queue, mon, workerVars,
                 harnessVars>>

\* choice "3" with two integers and a nonzero client count
ChooseCustom ==
  /\ ctl = "main"
  /\ \E tm \in InputTotals, nc \in InputClients \ {0} :
       /\ TOTAL_MESSAGES' = tm
       /\ NUM_CLIENTS' = nc
       /\ MESSAGES_PER_CLIENT' = FloorDiv(tm, nc)
  /\ ctl' = "probe"
  /\ mode' = "burst"
  /\ UNCHANGED <<launched, joined, report, probe, stats_lock, counters,
                 clockVars, result_queue, mon, workerVars, harnessVars>>

\* choice "3" with a client count of 0: ZeroDivisionError is not caught
ChooseCustomZeroClients ==
  /\ ctl = "main"
  /\ \E tm \in InputTotals :
       /\ TOTAL_MESSAGES' = tm
       /\ NUM_CLIENTS' = 0
       /\ UNCHANGED MESSAGES_PER_CLIENT
  /\ ctl' = "crashed"
  /\ UNCHANGED <<mode, launched, joined, report, probe, stats_lock, counters,
                 clockVars, result_queue, mon, workerVars, harnessVars>>

\* choice "3" with a non-numeric answer: int() raises ValueError, which the
\* block catches; the first answer may already have been stored
ChooseCustomInvalid ==
  /\ ctl = "main"
  /\ \/ UNCHANGED TOTAL_MESSAGES
     \/ \E tm \in InputTotals : TOTAL_MESSAGES' = tm
  /\ UNCHANGED <<NUM_CLIENTS, MESSAGES_PER_CLIENT>>
  /\ ctl' = "invalid"
  /\ UNCHANGED <<mode, launched, joined, report, probe, stats_lock, counters,
                 clockVars, result_queue, mon, workerVars, harnessVars>>

(* ---------------------------- update_stats ----------------------------- *)
\* a worker calls update_stats(d) and continues at r when it returns
CallUpdate(w, d, r) ==
  /\ args' = [args EXCEPT ![w] = d]
  /\ ret' = [ret EXCEPT ![w] = r]
  /\ pc' = [pc EXCEPT ![w] = "call_update"]
  /\ applied' = Add4(applied, d)

\* with stats_lock: the worker blocks until the lock is free
Acquire(w) ==
  /\ pc[w] = "call_update"
  /\ CanAcquire(WorkerThread(w))
  /\ stats_lock' = WorkerThread(w)
  /\ pc' = [pc EXCEPT ![w] = "in_update"]
  /\ UNCHANGED <<ctlVars, cfgVars, counters, clockVars, result_queue, mon,
                 localVars, callVars, histVars, harnessVars>>

\* the holder of stats_lock once the with block of update_stats is left
Released_LeakOnFailure(w) ==
  IF args[w] = FailedSendDelta THEN WorkerThread(w) ELSE Unlocked
Released(w) == Unlocked

\* the four additions, the release of the lock and the return
Update(w) ==
  /\ pc[w] = "in_update"
  /\ total_sent' = total_sent + args[w][1]
  /\ total_received' = total_received + args[w][2]
  /\ failed_connections' = failed_connections + args[w][3]
  /\ failed_sends' = failed_sends + args[w][4]
  /\ stats_lock' = Released(w)
  /\ pc' = [pc EXCEPT ![w] = ret[w]]
  /\ args' = [args EXCEPT ![w] = NoDelta]
  /\ ret' = [ret EXCEPT ![w] = "idle"]
  /\ UNCHANGED <<ctlVars, cfgVars, clockVars, result_queue, mon, localVars,
                 histVars, harnessVars>>

\* what no worker step touches
notWorker == <<ctlVars, cfgVars, clockVars, mon, stats_lock, counters,
               tmp, fld, calls>>

Count(w, what) == [net EXCEPT ![w][what] = @ + 1]

(* ---------------------------- client_worker ---------------------------- *)
\* for i in range(messages_to_send): another iteration is due
InLoop_OffByOne(w) == i[w] <= MESSAGES_PER_CLIENT
InLoop(w) == i[w] < MESSAGES_PER_CLIENT

\* the loop moves on to the next index
NextIndex(n) == n + 1

\* socket.socket() raises: the outer handler prints and falls through
WSocketError(w) ==
  /\ pc[w] = "start"
  /\ pc' = [pc EXCEPT ![w] = "put"]
  /\ evt' = [evt EXCEPT ![w] = "sock_error"]
  /\ net' = Count(w, "sockErr")
  /\ UNCHANGED <<notWorker, result_queue, localVars, callVars, applied,
                 writes, lateWrites>>

\* sock.connect() raises
WConnectFail(w) ==
  /\ pc[w] = "start"
  /\ timeout' = [timeout EXCEPT ![w] = CONNECT_TIMEOUT_MS]
  /\ evt' = [evt EXCEPT ![w] = "conn_fail"]
  /\ net' = Count(w, "connFail")
  /\ CallUpdate(w, FailedConnDelta, "put_connfail")
  /\ UNCHANGED <<notWorker, result_queue, i, sent, received, failed_send,
                 sock, writes, lateWrites>>

WConnectOk(w) ==
  /\ pc[w] = "start"
  /\ timeout' = [timeout EXCEPT ![w] = CONNECT_TIMEOUT_MS]
  /\ sock' = [sock EXCEPT ![w] = "open"]
  /\ evt' = [evt EXCEPT ![w] = "connected"]
  /\ pc' = [pc EXCEPT ![w] = "loop"]
  /\ UNCHANGED <<notWorker, result_queue, i, sent, received, failed_send,
                 callVars, applied, writes, net, lateWrites>>

\* sock.sendall() returns: sent += 1; update_stats(sent=1)
WSendOk(w) ==
  /\ pc[w] = "loop"
  /\ InLoop(w)
  /\ sent' = [sent EXCEPT ![w] = @ + 1]
  /\ writes' = [writes EXCEPT ![w] = Append(@, i[w])]
  /\ evt' = [evt EXCEPT ![w] = "send_ok"]
  /\ net' = Count(w, "sendOk")
  /\ CallUpdate(w, SentDelta, "recv")
  /\ UNCHANGED <<notWorker, result_queue, i, received, failed_send, sock,
                 timeout, lateWrites>>

\* where the worker continues after the handler of a failed iteration
AfterSendFailure_Abort == "put"
AfterSendFailure == "except_end"

\* sock.sendall() raises: failed_send += 1; update_stats(failed_send=1)
WSendFail(w) ==
  /\ pc[w] = "loop"
  /\ InLoop(w)
  /\ failed_send' = [failed_send EXCEPT ![w] = @ + 1]
  /\ writes' = [writes EXCEPT ![w] = Append(@, i[w])]
  /\ evt' = [evt EXCEPT ![w] = "send_fail"]
  /\ net' = Count(w, "sendFail")
  /\ CallUpdate(w, FailedSendDelta, AfterSendFailure)
  /\ UNCHANGED <<notWorker, result_queue, i, sent, received, sock, timeout,
                 lateWrites>>

\* sock.settimeout(0.5); sock.recv(1024) returns bytes
WRecvData(w) ==
  /\ pc[w] = "recv"
  /\ timeout' = [timeout EXCEPT ![w] = ACK_TIMEOUT_MS]
  /\ received' = [received EXCEPT ![w] = @ + 1]
  /\ evt' = [evt EXCEPT ![w] = "recv_data"]
  /\ net' = Count(w, "ack")
  /\ CallUpdate(w, ReceivedDelta, "sleep")
  /\ UNCHANGED <<notWorker, result_queue, i, sent, failed_send, sock,
                 writes, lateWrites>>

\* sock.recv(1024) returns b'' (the peer closed): nothing is counted
WRecvEmpty(w) ==
  /\ pc[w] = "recv"
  /\ timeout' = [timeout EXCEPT ![w] = ACK_TIMEOUT_MS]
  /\ evt' = [evt EXCEPT ![w] = "recv_empty"]
  /\ net' = Count(w, "noAck")
  /\ pc' = [pc EXCEPT ![w] = "sleep"]
  /\ UNCHANGED <<notWorker, result_queue, i, sent, received, failed_send,
                 sock, callVars, applied, writes, lateWrites>>

\* where the worker continues after socket.timeout on the read
AfterAckTimeout_AsError == "except_end"
AfterAckTimeout == "sleep"

\* sock.recv(1024) raises socket.timeout: pass
WRecvTimeout(w) ==
  /\ pc[w] = "recv"
  /\ timeout' = [timeout EXCEPT ![w] = ACK_TIMEOUT_MS]
  /\ evt' = [evt EXCEPT ![w] = "recv_timeout"]
  /\ net' = Count(w, "noAck")
  /\ pc' = [pc EXCEPT ![w] = AfterAckTimeout]
  /\ UNCHANGED <<notWorker, result_queue, i, sent, received, failed_send,
                 sock, callVars, applied, writes, lateWrites>>

\* sock.recv(1024) raises another exception: the handler of the iteration
\* counts a failed send
WRecvError(w) ==
  /\ pc[w] = "recv"
  /\ timeout' = [timeout EXCEPT ![w] = ACK_TIMEOUT_MS]
  /\ failed_send' = [failed_send EXCEPT ![w] = @ + 1]
  /\ evt' = [evt EXCEPT ![w] = "recv_error"]
  /\ net' = Count(w, "recvErr")
  /\ CallUpdate(w, FailedSendDelta, "except_end")
  /\ UNCHANGED <<notWorker, result_queue, i, sent, received, sock, writes,
                 lateWrites>>

\* time.sleep(0.001), then the next iteration
WSleep(w) ==
  /\ pc[w] = "sleep"
  /\ i' = [i EXCEPT ![w] = NextIndex(@)]
  /\ pc' = [pc EXCEPT ![w] = "loop"]
  /\ evt' = [evt EXCEPT ![w] = "none"]
  /\ UNCHANGED <<notWorker, result_queue, sent, received, failed_send, sock,
                 timeout, callVars, applied, writes, net, lateWrites>>

\* end of the except block of the iteration, then the next iteration
WExceptEnd(w) ==
  /\ pc[w] = "except_end"
  /\ i' = [i EXCEPT ![w] = NextIndex(@)]
  /\ pc' = [pc EXCEPT ![w] = "loop"]
  /\ evt' = [evt EXCEPT ![w] = "none"]
  /\ UNCHANGED <<notWorker, result_queue, sent, received, failed_send, sock,
                 timeout, callVars, applied, writes, net, lateWrites>>

\* the loop is exhausted: sock.close()
WClose(w) ==
  /\ pc[w] = "loop"
  /\ ~InLoop(w)
  /\ sock' = [sock EXCEPT ![w] = "closed"]
  /\ pc' = [pc EXCEPT ![w] = "put"]
  /\ UNCHANGED <<notWorker, result_queue, i, sent, received, failed_send,
                 timeout, callVars, applied, histVars>>

\* result_queue.put((client_id, sent, received, 0, failed_send))
WPut(w) ==
  /\ pc[w] = "put"
  /\ result_queue' =
       Append(result_queue, <<w, sent[w], received[w], 0, failed_send[w]>>)
  /\ pc' = [pc EXCEPT ![w] = "done"]
  /\ UNCHANGED <<notWorker, localVars, callVars, applied, histVars>>

\* result_queue.put((client_id, 0, 0, 1, 0)); return
WPutConnFail(w) ==
  /\ pc[w] = "put_connfail"
  /\ result_queue' = Append(result_queue, <<w, 0, 0, 1, 0>>)
  /\ pc' = [pc EXCEPT ![w] = "done"]
  /\ UNCHANGED <<notWorker, localVars, callVars, applied, histVars>>

(* ---------------------------- sustained_client_worker ------------------ *)
\* while time.time() < end_time
TimeLeft_NoDeadline == TRUE
TimeLeft == now < end_time

Late == IF now >= end_time THEN 1 ELSE 0

\* socket.socket() or sock.connect() raises: update_stats(failed_conn=1)
SWConnectFail(w) ==
  /\ pc[w] = "s_start"
  /\ net' = Count(w, "connFail")
  /\ CallUpdate(w, FailedConnDelta, "done")
  /\ UNCHANGED <<notWorker, result_queue, localVars, evt, writes,
                 lateWrites>>

SWConnectOk(w) ==
  /\ pc[w] = "s_start"
  /\ timeout' = [timeout EXCEPT ![w] = CONNECT_TIMEOUT_MS]
  /\ sock' = [sock EXCEPT ![w] = "open"]
  /\ pc' = [pc EXCEPT ![w] = "s_loop"]
  /\ UNCHANGED <<notWorker, result_queue, i, sent, received, failed_send,
                 callVars, applied, histVars>>

\* the loop condition holds: the message is built, the write comes next
SWCheckPass(w) ==
  /\ pc[w] = "s_loop"
  /\ TimeLeft
  /\ pc' = [pc EXCEPT ![w] = "s_send"]
  /\ UNCHANGED <<notWorker, result_queue, localVars, callVars, applied,
                 histVars>>

\* the loop condition fails
SWCheckExpired(w) ==
  /\ pc[w] = "s_loop"
  /\ ~TimeLeft
  /\ pc' = [pc EXCEPT ![w] = "s_close"]
  /\ UNCHANGED <<notWorker, result_queue, localVars, callVars, applied,
                 histVars>>

\* sock.sendall() returns: update_stats(sent=1).  The local counter sent is
\* incremented too, but the function never reads or publishes it, so it is
\* not kept in the state.
SWSendOk(w) ==
  /\ pc[w] = "s_send"
  /\ lateWrites' = [lateWrites EXCEPT ![w] = @ + Late]
  /\ CallUpdate(w, SentDelta, "s_sleep")
  /\ UNCHANGED <<notWorker, result_queue, localVars, evt, writes, net>>

\* where the sustained worker continues after the handler of a failed
\* write: break leaves the loop
AfterSustainedSendFailure_Continue == "s_sleep"
AfterSustainedSendFailure == "s_close"

\* sock.sendall() raises: update_stats(failed_send=1); break
SWSendFail(w) ==
  /\ pc[w] = "s_send"
  /\ net' = Count(w, "sendFail")
  /\ lateWrites' = [lateWrites EXCEPT ![w] = @ + Late]
  /\ CallUpdate(w, FailedSendDelta, AfterSustainedSendFailure)
  /\ UNCHANGED <<notWorker, result_queue, localVars, evt, writes>>

\* sock.close(); the function returns without a result_queue.put
SWClose(w) ==
  /\ pc[w] = "s_close"
  /\ sock' = [sock EXCEPT ![w] = "closed"]
  /\ pc' = [pc EXCEPT ![w] = "done"]
  /\ UNCHANGED <<notWorker, result_queue, i, sent, received, failed_send,
                 timeout, callVars, applied, histVars>>

(* ---------------------------- monitor_progress ------------------------- *)
notMonitor == <<ctlVars, cfgVars, counters, clockVars, result_queue,
                workerVars, harnessVars>>

\* while any(t.is_alive() for t in threads)
MonCheckAlive ==
  /\ mon = "check"
  /\ ProcessAlive
  /\ \E w \in Range(NUM_CLIENTS) : IsAlive(w)
  /\ mon' = "acquire"
  /\ UNCHANGED <<notMonitor, stats_lock>>

MonCheckExit ==
  /\ mon = "check"
  /\ ProcessAlive
  /\ \A w \in Range(NUM_CLIENTS) : ~IsAlive(w)
  /\ mon' = "exit"
  /\ UNCHANGED <<notMonitor, stats_lock>>

\* print_progress: with stats_lock
MonAcquire ==
  /\ mon = "acquire"
  /\ ProcessAlive
  /\ CanAcquire(MonitorThread)
  /\ stats_lock' = MonitorThread
  /\ mon' = "print"
  /\ UNCHANGED notMonitor

\* print_progress: the line is printed and the lock released; then
\* time.sleep(0.5) and back to the loop condition
MonPrint ==
  /\ mon = "print"
  /\ ProcessAlive
  /\ stats_lock' = Unlocked
  /\ mon' = "check"
  /\ UNCHANGED notMonitor

(* ---------------------------- run_load_test ---------------------------- *)
\* the test connection succeeds
ProbeOk ==
  /\ ctl = "probe"
  /\ probe' = "ok"
  /\ start_time' = now
  /\ ctl' = "launch"
  /\ UNCHANGED <<mode, launched, joined, report, cfgVars, stats_lock,
                 counters, end_time, now, result_queue, mon, workerVars,
                 harnessVars>>

\* the test connection raises: the function returns
ProbeFail ==
  /\ ctl = "probe"
  /\ probe' = "failed"
  /\ ctl' = "aborted"
  /\ UNCHANGED <<mode, launched, joined, report, cfgVars, stats_lock,
                 counters, clockVars, result_queue, mon, workerVars,
                 harnessVars>>

\* t.start() for client launched; threads.append(t); time.sleep(0.01)
Launch ==
  /\ ctl = "launch"
  /\ launched \in Range(NUM_CLIENTS)
  /\ pc' = [pc EXCEPT ![launched] = "start"]
  /\ launched' = launched + 1
  /\ UNCHANGED <<ctl, mode, joined, report, probe, cfgVars,
                 stats_lock, counters, clockVars, result_queue, mon,
                 localVars, callVars, histVars, harnessVars>>

\* the launch loop is over: progress_thread.start()
LaunchDone ==
  /\ ctl = "launch"
  /\ launched \notin Range(NUM_CLIENTS)
  /\ mon' = "check"
  /\ ctl' = "join"
  /\ UNCHANGED <<mode, launched, joined, report, probe, cfgVars,
                 stats_lock, counters, clockVars, result_queue, workerVars,
                 harnessVars>>

\* t.join() returns when the thread has finished
JoinReturns_NoWait(w) == TRUE
JoinReturns(w) == pc[w] = "done"

\* for t in threads: t.join()
Join ==
  /\ ctl = "join"
  /\ joined \in Range(NUM_CLIENTS)
  /\ JoinReturns(joined)
  /\ joined' = joined + 1
  /\ UNCHANGED <<ctl, mode, launched, report, probe, cfgVars,
                 stats_lock, counters, clockVars, result_queue, mon,
                 workerVars, harnessVars>>

\* every thread is joined: the header of the results is printed
JoinDone ==
  /\ ctl = "join"
  /\ joined \notin Range(NUM_CLIENTS)
  /\ ctl' = "report_lock"
  /\ UNCHANGED <<mode, launched, joined, report, probe, cfgVars,
                 stats_lock, counters, clockVars, result_queue, mon,
                 workerVars, harnessVars>>

\* with stats_lock, around the results
ReportAcquire ==
  /\ ctl = "report_lock"
  /\ CanAcquire(MainThread)
  /\ stats_lock' = MainThread
  /\ ctl' = "report_body"
  /\ UNCHANGED <<mode, launched, joined, report, probe, cfgVars,
                 counters, clockVars, result_queue, mon, workerVars,
                 harnessVars>>

\* the counters are printed; the burst report then divides by
\* TOTAL_MESSAGES, which raises ZeroDivisionError when it is 0
ReportBody ==
  /\ ctl = "report_body"
  /\ report' = counters
  /\ stats_lock' = Unlocked
  /\ ctl' = IF mode = "burst" /\ TOTAL_MESSAGES = 0 THEN "crashed" ELSE "done"
  /\ UNCHANGED <<mode, launched, joined, probe, cfgVars, counters,
                 clockVars, result_queue, mon, workerVars, harnessVars>>

(* ---------------------------- run_sustained_load_test ------------------ *)
\* start_time = time.time(); end_time = start_time + duration_seconds
SStart ==
  /\ ctl = "s_start"
  /\ start_time' = now
  /\ end_time' = now + Duration
  /\ ctl' = "s_launch"
  /\ UNCHANGED <<mode, launched, joined, report, probe, cfgVars,
                 stats_lock, counters, now, result_queue, mon, workerVars,
                 harnessVars>>

\* t.start() for client launched; threads.append(t)
SLaunch ==
  /\ ctl = "s_launch"
  /\ launched \in Range(NUM_CLIENTS)
  /\ pc' = [pc EXCEPT ![launched] = "s_start"]
  /\ launched' = launched + 1
  /\ UNCHANGED <<ctl, mode, joined, report, probe, cfgVars,
                 stats_lock, counters, clockVars, result_queue, mon,
                 localVars, callVars, histVars, harnessVars>>

SLaunchDone ==
  /\ ctl = "s_launch"
  /\ launched \notin Range(NUM_CLIENTS)
  /\ ctl' = "s_mon"
  /\ UNCHANGED <<mode, launched, joined, report, probe, cfgVars,
                 stats_lock, counters, clockVars, result_queue, mon,
                 workerVars, harnessVars>>

\* while time.time() < end_time, in the controller
MonitorTimeLeft == now < end_time

SMonPass ==
  /\ ctl = "s_mon"
  /\ MonitorTimeLeft
  /\ ctl' = "s_acquire"
  /\ UNCHANGED <<mode, launched, joined, report, probe, cfgVars,
                 stats_lock, counters, clockVars, result_queue, mon,
                 workerVars, harnessVars>>

SMonExpired ==
  /\ ctl = "s_mon"
  /\ ~MonitorTimeLeft
  /\ ctl' = "join"
  /\ UNCHANGED <<mode, launched, joined, report, probe, cfgVars,
                 stats_lock, counters, clockVars, result_queue, mon,
                 workerVars, harnessVars>>

\* print_progress called by the controller: with stats_lock
SPrintAcquire ==
  /\ ctl = "s_acquire"
  /\ CanAcquire(MainThread)
  /\ stats_lock' = MainThread
  /\ ctl' = "s_print"
  /\ UNCHANGED <<mode, launched, joined, report, probe, cfgVars,
                 counters, clockVars, result_queue, mon, workerVars,
                 harnessVars>>

SPrint ==
  /\ ctl = "s_print"
  /\ stats_lock' = Unlocked
  /\ ctl' = "s_sleep"
  /\ UNCHANGED <<mode, launched, joined, report, probe, cfgVars, counters,
                 clockVars, result_queue, mon, workerVars, harnessVars>>

(* ---------------------------- the clock -------------------------------- *)
\* time.sleep(0.01) of a sustained worker returns when the clock moves on
WakeWorkers == [w \in Workers |-> IF pc[w] = "s_sleep" THEN "s_loop" ELSE pc[w]]

\* time.sleep(0.5) of the sustained controller returns when the clock moves on
WakeController == IF ctl = "s_sleep" THEN "s_mon" ELSE ctl

\* time passes, and whoever sleeps wakes up; the value end_time + 1 stands
\* for every later time
Tick ==
  /\ mode = "sustained"
  /\ start_time >= 0
  /\ now <= end_time \/ ctl = "s_sleep" \/ \E w \in Workers : pc[w] = "s_sleep"
  /\ now' = IF now <= end_time THEN now + 1 ELSE now
  /\ pc' = WakeWorkers
  /\ ctl' = WakeController
  /\ UNCHANGED <<mode, launched, joined, report, probe, cfgVars, stats_lock,
                 counters, start_time, end_time, result_queue, mon,
                 localVars, callVars, histVars, harnessVars>>

(* ---------------------------- the program ------------------------------ *)
Menu ==
  \/ ChooseBurst
  \/ ChooseSustained
  \/ ChooseCustom
  \/ ChooseCustomZeroClients
  \/ ChooseCustomInvalid

BurstController ==
  \/ ProbeOk
  \/ ProbeFail
  \/ Launch
  \/ LaunchDone

SustainedController ==
  \/ SStart
  \/ SLaunch
  \/ SLaunchDone
  \/ SMonPass
  \/ SMonExpired
  \/ SPrintAcquire
  \/ SPrint

Drain ==
  \/ Join
  \/ JoinDone
  \/ ReportAcquire
  \/ ReportBody

Controller == Menu \/ BurstController \/ SustainedController \/ Drain

Monitor ==
  \/ MonCheckAlive
  \/ MonCheckExit
  \/ MonAcquire
  \/ MonPrint

BurstWorker(w) ==
  \/ WSocketError(w)
  \/ WConnectFail(w)
  \/ WConnectOk(w)
  \/ WSendOk(w)
  \/ WSendFail(w)
  \/ WRecvData(w)
  \/ WRecvEmpty(w)
  \/ WRecvTimeout(w)
  \/ WRecvError(w)
  \/ WSleep(w)
  \/ WExceptEnd(w)
  \/ WClose(w)
  \/ WPut(w)
  \/ WPutConnFail(w)

SustainedWorker(w) ==
  \/ SWConnectFail(w)
  \/ SWConnectOk(w)
  \/ SWCheckPass(w)
  \/ SWCheckExpired(w)
  \/ SWSendOk(w)
  \/ SWSendFail(w)
  \/ SWClose(w)

Worker(w) == BurstWorker(w) \/ SustainedWorker(w) \/ Update(w)

Next ==
  \/ Controller
  \/ Monitor
  \/ Tick
  \/ \E w \in Workers : Worker(w) \/ Acquire(w)

Spec == Init /\ [][Next]_vars

(* ---------------------------- update_stats, statement by statement ----- *)
\* The callers of update_stats on their own: each makes up to MaxCalls calls
\* with one of the keyword arguments the program uses, and the body runs one
\* read and one write of a global at a time.
InitStats == ctl = "harness" /\ Globals

Counter(k) ==
  CASE k = 1 -> total_sent
    [] k = 2 -> total_received
    [] k = 3 -> failed_connections
    [] OTHER -> failed_sends

notStats == <<mode, launched, joined, report, probe, cfgVars, clockVars,
              result_queue, mon, localVars, ret, histVars>>

\* a thread calls update_stats with one of the deltas
HCall(w) ==
  /\ ctl = "harness"
  /\ pc[w] = "idle"
  /\ calls[w] < MaxCalls
  /\ \E d \in Deltas :
       /\ args' = [args EXCEPT ![w] = d]
       /\ applied' = Add4(applied, d)
  /\ calls' = [calls EXCEPT ![w] = @ + 1]
  /\ pc' = [pc EXCEPT ![w] = "u_acquire"]
  /\ UNCHANGED <<ctl, notStats, stats_lock, counters, tmp, fld>>

\* with stats_lock
HAcquire(w) ==
  /\ pc[w] = "u_acquire"
  /\ CanAcquire(WorkerThread(w))
  /\ stats_lock' = WorkerThread(w)
  /\ fld' = [fld EXCEPT ![w] = 1]
  /\ pc' = [pc EXCEPT ![w] = "u_load"]
  /\ UNCHANGED <<ctl, notStats, counters, args, tmp, calls, applied>>

\* x += d, first half: the global is read and the delta added
HLoad(w) ==
  /\ pc[w] = "u_load"
  /\ tmp' = [tmp EXCEPT ![w] = Counter(fld[w]) + args[w][fld[w]]]
  /\ pc' = [pc EXCEPT ![w] = "u_store"]
  /\ UNCHANGED <<ctl, notStats, stats_lock, counters, args, fld, calls,
                 applied>>

\* x += d, second half: the global is written
HStore(w) ==
  /\ pc[w] = "u_store"
  /\ total_sent' = IF fld[w] = 1 THEN tmp[w] ELSE total_sent
  /\ total_received' = IF fld[w] = 2 THEN tmp[w] ELSE total_received
  /\ failed_connections' = IF fld[w] = 3 THEN tmp[w] ELSE failed_connections
  /\ failed_sends' = IF fld[w] = 4 THEN tmp[w] ELSE failed_sends
  /\ IF fld[w] = 4
       THEN pc' = [pc EXCEPT ![w] = "u_release"] /\ UNCHANGED fld
       ELSE pc' = [pc EXCEPT ![w] = "u_load"]
            /\ fld' = [fld EXCEPT ![w] = @ + 1]
  /\ UNCHANGED <<ctl, notStats, stats_lock, args, tmp, calls, applied>>

\* the with block ends: the lock is released and the call returns
HRelease(w) ==
  /\ pc[w] = "u_release"
  /\ stats_lock' = Unlocked
  /\ tmp' = [tmp EXCEPT ![w] = 0]
  /\ fld' = [fld EXCEPT ![w] = 0]
  /\ pc' = [pc EXCEPT ![w] = "idle"]
  /\ UNCHANGED <<ctl, notStats, counters, args, calls, applied>>

NextStats ==
  \E w \in Workers :
    \/ HCall(w)
    \/ HAcquire(w)
    \/ HLoad(w)
    \/ HStore(w)
    \/ HRelease(w)

SpecStats == InitStats /\ [][NextStats]_vars

(* ---------------------------- properties ------------------------------- *)
InUpdate(w) ==
  pc[w] \in {"call_update", "in_update", "u_acquire", "u_load", "u_store",
             "u_release"}

\* number of results client w has put on the queue
ResultsOf(w) ==
  Cardinality({k \in 1..Len(result_queue) : result_queue[k][1] = w})

\* the controller has printed the counters of the final report
Reported == report # <<>>

\* C1: no lost updates.  Whenever every call of update_stats has returned,
\* each of the four counters equals the sum of the deltas passed for it by
\* all the calls, however the callers were interleaved.
C1_NoLostUpdates ==
  (\A w \in Workers : ~InUpdate(w)) => counters = applied

\* every caller has made a call, all calls have returned, and two of them
\* incremented the same counter
C1_Witness ==
  /\ ctl = "harness"
  /\ \A w \in Workers : calls[w] >= 1 /\ pc[w] = "idle"
  /\ total_sent >= 2

\* C2: exactly one result.  A worker that has terminated, in burst or in
\* sustained mode, has put exactly one result on the result queue, and no
\* worker ever has two.
C2_ExactlyOneResult ==
  \A w \in Workers :
    /\ ResultsOf(w) <= 1
    /\ pc[w] = "done" => ResultsOf(w) = 1

\* every connection and every write of the run was accepted
AllWritesAccepted ==
  \A w \in Range(NUM_CLIENTS) :
    net[w].sockErr = 0 /\ net[w].connFail = 0 /\ net[w].sendFail = 0

\* C3: burst completion bound.  In a burst run of N >= 1 clients with
\* M >= 0 messages each, total_sent never exceeds N * M, and when the report
\* has been printed after a run in which the server accepted every
\* connection and every write, total_sent equals N * M.
C3_BurstCompletionBound ==
  (mode = "burst" /\ NUM_CLIENTS > 0 /\ MESSAGES_PER_CLIENT >= 0) =>
    /\ total_sent <= NUM_CLIENTS * MESSAGES_PER_CLIENT
    /\ (Reported /\ AllWritesAccepted) =>
         total_sent = NUM_CLIENTS * MESSAGES_PER_CLIENT

\* a finished burst run of several clients and messages with every write
\* accepted
C3_Witness ==
  /\ mode = "burst"
  /\ Reported
  /\ NUM_CLIENTS >= 2
  /\ MESSAGES_PER_CLIENT >= 2
  /\ AllWritesAccepted
  /\ total_sent = NUM_CLIENTS * MESSAGES_PER_CLIENT

\* C4: pre-flight probe.  In every run, burst or sustained, a worker is
\* started only after a connectivity probe has succeeded; after a failed
\* probe no worker is ever started and total_sent stays 0.
C4_PreflightProbe ==
  /\ \A w \in Workers :
       (mode \in {"burst", "sustained"} /\ pc[w] # "idle") => probe = "ok"
  /\ probe = "failed" =>
       (total_sent = 0 /\ \A w \in Workers : pc[w] = "idle")

\* every client of the run has been started and has terminated, and in
\* burst mode has published its result
Drained ==
  \A w \in Range(NUM_CLIENTS) :
    /\ pc[w] = "done"
    /\ mode = "burst" => ResultsOf(w) = 1

\* C5: draining before reporting.  In both modes the controller reads the
\* counters for the report only when every launched worker has terminated
\* (and, in burst mode, has published its result); the values it printed are
\* the final ones, and no counter changes after they have been read.
C5_DrainBeforeReport ==
  /\ []((ctl = "report_body" \/ Reported) => Drained)
  /\ [](Reported => report = counters)
  /\ [][Reported => counters' = counters]_vars

\* the report of a sustained run whose workers sent messages
C5_Witness ==
  /\ mode = "sustained"
  /\ Reported
  /\ total_sent >= 2
  /\ failed_sends >= 1

\* C6 as stated: in sustained mode no worker begins a write at or after
\* end_time.
C6_NoWriteAfterEnd ==
  mode = "sustained" => \A w \in Workers : lateWrites[w] = 0

\* C6, amended: in sustained mode no worker passes its loop condition at or
\* after end_time, so each worker begins at most one write at or after
\* end_time, the one whose loop condition it evaluated before end_time.
C6_SustainedTimeBound ==
  /\ [](mode = "sustained" => \A w \in Workers : lateWrites[w] <= 1)
  /\ [][\A w \in Workers :
          (pc[w] = "s_loop" /\ pc'[w] = "s_send") => now < end_time]_vars

\* a worker has begun a write after end_time and has terminated, in a run
\* that sent several messages
C6_Witness ==
  /\ mode = "sustained"
  /\ now > end_time
  /\ total_sent >= 2
  /\ \E w \in Workers : lateWrites[w] = 1 /\ pc[w] = "done"

\* C7: an ack timeout is not a failure.  The step in which the read of a
\* burst worker times out changes no counter and neither received nor
\* failed_send of the worker, and leads through the pacing sleep to the next
\* iteration; as long as no write and no read has raised an error
\* failed_sends is 0, and as long as no connect has failed
\* failed_connections is 0.
C7_AckTimeoutNotFailure ==
  /\ [][\A w \in Workers :
          (pc[w] = "recv" /\ evt'[w] = "recv_timeout") =>
            /\ counters' = counters
            /\ received'[w] = received[w]
            /\ failed_send'[w] = failed_send[w]
            /\ pc'[w] = "sleep"]_vars
  /\ [][\A w \in Workers :
          (evt[w] = "recv_timeout" /\ pc'[w] # pc[w]) =>
            /\ pc[w] = "sleep"
            /\ pc'[w] = "loop"
            /\ i'[w] = i[w] + 1
            /\ counters' = counters
            /\ received'[w] = received[w]
            /\ failed_send'[w] = failed_send[w]]_vars
  /\ []((\A w \in Workers : net[w].sendFail = 0 /\ net[w].recvErr = 0) =>
          failed_sends = 0)
  /\ []((\A w \in Workers : net[w].connFail = 0) => failed_connections = 0)

\* a worker went on to a later iteration after ack timeouts only, with
\* nothing counted as failed or received
C7_Witness ==
  \E w \in Workers :
    /\ i[w] >= 1
    /\ pc[w] = "loop"
    /\ net[w].noAck = i[w]
    /\ sent[w] = i[w]
    /\ received[w] = 0
    /\ failed_sends = 0
    /\ failed_connections = 0

\* every message written was answered with data
AllAcked ==
  \A w \in Range(NUM_CLIENTS) : net[w].noAck = 0 /\ net[w].recvErr = 0

\* C8: in a burst run of N >= 1 clients with M >= 0 messages each in which
\* every connect and every write succeeds and the server replies to every
\* message, the report shows total_sent = total_received = N * M and
\* failed_connections = failed_sends = 0.
C8_AllRepliedScenario ==
  (/\ mode = "burst"
   /\ NUM_CLIENTS > 0
   /\ MESSAGES_PER_CLIENT >= 0
   /\ Reported
   /\ AllWritesAccepted
   /\ AllAcked) =>
    /\ report = <<NUM_CLIENTS * MESSAGES_PER_CLIENT,
                  NUM_CLIENTS * MESSAGES_PER_CLIENT, 0, 0>>
    /\ counters = report

\* the report of such a run with several clients and messages
C8_Witness ==
  /\ mode = "burst"
  /\ Reported
  /\ NUM_CLIENTS >= 2
  /\ MESSAGES_PER_CLIENT >= 2
  /\ AllWritesAccepted
  /\ AllAcked
  /\ total_received = NUM_CLIENTS * MESSAGES_PER_CLIENT

(* ---------------------------- burst runs under fair scheduling --------- *)
\* the burst run of menu choice "1"
BurstNext ==
  \/ ChooseBurst
  \/ BurstController
  \/ Drain
  \/ Monitor
  \/ \E w \in Workers : BurstWorker(w) \/ Update(w) \/ Acquire(w)

\* Every thread that can run is scheduled, and a thread blocked on
\* stats_lock gets the lock if the lock is free again and again: the holders
\* keep the lock for a few statements and the monitor sleeps between two
\* uses.  Hence strong fairness on the steps of the main thread and of each
\* worker, which include their acquisitions of the lock, and weak fairness
\* on the monitor, which only has to release the lock it holds.
MainSteps == ChooseBurst \/ BurstController \/ Drain

WorkerSteps(w) == BurstWorker(w) \/ Update(w) \/ Acquire(w)

BurstFairness ==
  /\ SF_vars(MainSteps)
  /\ WF_vars(Monitor)
  /\ \A w \in Workers : SF_vars(WorkerSteps(w))

FairBurstSpec == Init /\ [][BurstNext]_vars /\ BurstFairness

\* C9: failure isolation and termination.  In a burst run whose probe
\* succeeded, whatever connect failures, write failures and ack timeouts
\* occur, under fair scheduling every worker terminates and the controller
\* prints the final report.
C9_BurstTerminates ==
  (probe = "ok") ~>
    (Reported /\ \A w \in Range(NUM_CLIENTS) : pc[w] = "done")

\* the report of a run in which one worker failed to connect, one had a
\* failed write, one had an unanswered message, and the workers that
\* connected went through all their iterations
C9_Witness ==
  /\ mode = "burst"
  /\ Reported
  /\ MESSAGES_PER_CLIENT >= 1
  /\ \E w1, w2, w3 \in Range(NUM_CLIENTS) :
       /\ net[w1].connFail = 1
       /\ net[w2].sendFail >= 1
       /\ net[w3].noAck >= 1
       /\ Len(writes[w2]) = MESSAGES_PER_CLIENT
       /\ Len(writes[w3]) = MESSAGES_PER_CLIENT

\* the number of iterations of the loop over range(n)
Iterations(n) == IF n > 0 THEN n ELSE 0

\* C10: a burst send failure is not terminal.  A burst worker whose connect
\* succeeded attempts the writes of the indices 0, 1, ... in this order,
\* one per iteration, on a connection that stays open until the loop is
\* over, and has made exactly messages_to_send attempts when it leaves the
\* loop; a failed write adds 1 to failed_send and to failed_sends and the
\* worker goes on with the next index.
C10_SendFailureNonTerminal ==
  /\ [](\A w \in Workers :
          (mode = "burst" /\ sock[w] # "none") =>
            /\ writes[w] = [k \in 1..Len(writes[w]) |-> k - 1]
            /\ Len(writes[w]) <= Iterations(MESSAGES_PER_CLIENT)
            /\ sock[w] = "closed" <=> pc[w] \in {"put", "done"}
            /\ pc[w] \in {"put", "done"} =>
                 Len(writes[w]) = Iterations(MESSAGES_PER_CLIENT))
  /\ [][\A w \in Workers :
          (pc[w] = "loop" /\ evt'[w] = "send_fail") =>
            /\ failed_send'[w] = failed_send[w] + 1
            /\ args'[w] = FailedSendDelta
            /\ ret'[w] = "except_end"
            /\ sock'[w] = "open"]_vars
  /\ [][\A w \in Workers :
          (pc[w] = "in_update" /\ args[w] = FailedSendDelta
             /\ pc'[w] # pc[w]) =>
            failed_sends' = failed_sends + 1]_vars
  /\ [][\A w \in Workers :
          (pc[w] = "except_end" /\ pc'[w] # pc[w]) =>
            /\ pc'[w] = "loop"
            /\ i'[w] = i[w] + 1
            /\ sock'[w] = "open"]_vars

\* a worker whose first writes failed has a later write accepted on the
\* same connection
C10_Witness ==
  \E w \in Workers :
    /\ mode = "burst"
    /\ evt[w] = "send_ok"
    /\ sent[w] = 1
    /\ i[w] >= 1
    /\ net[w].sendFail = i[w]
    /\ sock[w] = "open"

\* the sustained workers whose write has failed
FailedWriters == {w \in Workers : net[w].sendFail >= 1}

\* C11: a sustained send failure is terminal.  In sustained mode the step
\* in which a worker's write fails passes failed_send=1, and nothing else,
\* to update_stats and continues after the loop; from then on the worker
\* never reaches the write again and goes on to close its connection, so
\* that it is closed when the worker has terminated; no worker has more
\* than one failed write and failed_sends never exceeds the number of
\* workers whose write failed, and equals it in the report.
C11_SustainedFailureTerminal ==
  /\ [](mode = "sustained" =>
          /\ \A w \in Workers :
               /\ net[w].sendFail <= 1
               /\ net[w].sendFail = 1 =>
                    /\ pc[w] \in {"call_update", "in_update", "s_close", "done"}
                    /\ pc[w] = "done" => sock[w] = "closed"
                    /\ InUpdate(w) => ret[w] = "s_close"
          /\ failed_sends <= Cardinality(FailedWriters)
          /\ Reported => failed_sends = Cardinality(FailedWriters))
  /\ [][\A w \in Workers :
          (pc[w] = "s_send" /\ net'[w].sendFail # net[w].sendFail) =>
            /\ args'[w] = FailedSendDelta
            /\ ret'[w] = "s_close"
            /\ sock'[w] = "open"]_vars
  /\ [][\A w \in Workers :
          (mode = "sustained" /\ pc[w] = "in_update"
             /\ args[w] = FailedSendDelta /\ pc'[w] # pc[w]) =>
            /\ failed_sends' = failed_sends + 1
            /\ pc'[w] = "s_close"]_vars

\* a sustained worker sent a message, then had a write fail before the
\* deadline, and has terminated with its connection closed while the run
\* goes on
C11_Witness ==
  /\ mode = "sustained"
  /\ now < end_time
  /\ total_sent >= 1
  /\ failed_sends = 1
  /\ \E w \in Workers :
       /\ net[w].sendFail = 1
       /\ pc[w] = "done"
       /\ sock[w] = "closed"

\* the run has passed "Starting load test...": start_time is set
RunStarted == start_time >= 0

\* C12: every run that reaches the launch of the workers has
\* NUM_CLIENTS > 0, and no run is reported that started no worker.
C12_PositiveClientCount ==
  /\ RunStarted => NUM_CLIENTS > 0
  /\ Reported => launched > 0

\* C13: independent timeouts.  Every write of a burst worker is performed
\* while the timeout of its socket is the 10 s set after the socket was
\* created, never the 0.5 s set for the read of the acknowledgment.
C13_IndependentTimeouts ==
  [][\A w \in Workers :
       (mode = "burst" /\ pc[w] = "loop" /\ Len(writes'[w]) > Len(writes[w]))
         => timeout[w] = CONNECT_TIMEOUT_MS]_vars

\* C14: pacing after every iteration.  A burst worker goes from one
\* iteration to the next only through the pacing sleep, whether the write
\* of the iteration succeeded or failed.
C14_PacingEveryIteration ==
  [][\A w \in Workers :
       (mode = "burst" /\ i'[w] # i[w]) => pc[w] = "sleep"]_vars

\* C15: the monitor never holds the lock while rendering.  Whenever the
\* monitor is printing the progress line stats_lock is not held by the
\* monitor, and no worker is waiting for the lock at that time.
C15_MonitorRendersUnlocked ==
  mon = "print" =>
    /\ stats_lock # MonitorThread
    /\ \A w \in Workers : pc[w] # "call_update"

\* C16: truncating split.  In a burst run of NUM_CLIENTS >= 1 clients and
\* TOTAL_MESSAGES >= 0 messages, MESSAGES_PER_CLIENT is the floor of
\* TOTAL_MESSAGES / NUM_CLIENTS; total_sent never exceeds TOTAL_MESSAGES,
\* and when the report has been printed after a run in which every connect
\* and every write succeeded, total_sent equals TOTAL_MESSAGES minus
\* (TOTAL_MESSAGES mod NUM_CLIENTS), a shortfall of less than NUM_CLIENTS.
C16_TruncatingSplit ==
  (mode = "burst" /\ NUM_CLIENTS > 0 /\ TOTAL_MESSAGES >= 0) =>
    /\ NUM_CLIENTS * MESSAGES_PER_CLIENT <= TOTAL_MESSAGES
    /\ TOTAL_MESSAGES < NUM_CLIENTS * (MESSAGES_PER_CLIENT + 1)
    /\ total_sent <= TOTAL_MESSAGES
    /\ (Reported /\ AllWritesAccepted) =>
         /\ total_sent = TOTAL_MESSAGES - (TOTAL_MESSAGES % NUM_CLIENTS)
         /\ TOTAL_MESSAGES - total_sent < NUM_CLIENTS

\* the report of a run whose total is not a multiple of the client count:
\* every write succeeded and the remainder was never sent
C16_Witness ==
  /\ mode = "burst"
  /\ Reported
  /\ NUM_CLIENTS >= 2
  /\ TOTAL_MESSAGES % NUM_CLIENTS # 0
  /\ AllWritesAccepted
  /\ total_sent >= 2
  /\ total_sent < TOTAL_MESSAGES

\* C17: each iteration is counted once.  Every iteration of a burst worker
\* is counted either as sent or as failed_send, never as both: a worker
\* whose connect succeeded has sent + failed_send = messages_to_send when it
\* publishes its result, at any time sent + failed_send is the number of
\* writes it has attempted, and failed_send is the number of its writes that
\* failed.
C17_SentXorFailed ==
  \A w \in Workers :
    (mode = "burst" /\ sock[w] # "none") =>
      /\ sent[w] + failed_send[w] = Len(writes[w])
      /\ failed_send[w] = net[w].sendFail
      /\ pc[w] \in {"put", "done"} =>
           sent[w] + failed_send[w] = Iterations(MESSAGES_PER_CLIENT)

\* C18: total_received never exceeds total_sent.  In every reachable state
\* of a run, whatever the interleaving of the workers, total_received <=
\* total_sent, and for each worker received <= sent: a worker counts an
\* acknowledgment only after its update_stats(sent=1) for the same message
\* has returned.
C18_ReceivedAtMostSent ==
  /\ [](total_received <= total_sent)
  /\ [](\A w \in Workers : received[w] <= sent[w])
  /\ [][\A w \in Workers :
          (mode = "burst" /\ received'[w] # received[w]) =>
            /\ evt[w] = "send_ok"
            /\ Len(writes[w]) = i[w] + 1
            /\ ~InUpdate(w)
            /\ total_received < total_sent]_vars

\* every message sent so far has been acknowledged and counted, by two
\* workers, while one of them is about to count an acknowledgment behind
\* the other's pending update
C18_Witness ==
  /\ mode = "burst"
  /\ total_received >= 2
  /\ \E w, v \in Workers :
       /\ w # v
       /\ received[w] >= 1
       /\ received[v] >= 1
       /\ pc[v] = "call_update"
       /\ args[v] = ReceivedDelta
       /\ total_received + 1 = total_sent

\* the sums of the sent, received, failed connection and failed send fields
\* of the results in a queue
RECURSIVE SumResults(_)
SumResults(q) ==
  IF q = <<>>
    THEN NoDelta
    ELSE Add4(<<Head(q)[2], Head(q)[3], Head(q)[4], Head(q)[5]>>,
              SumResults(Tail(q)))

\* C19: the results agree with the counters.  When the report of a burst
\* run has been printed, the sums over all queued results of sent, received,
\* failed connection and failed send equal total_sent, total_received,
\* failed_connections and failed_sends, which are the values reported.
C19_ResultsAgreeWithCounters ==
  (mode = "burst" /\ Reported) =>
    /\ SumResults(result_queue) = counters
    /\ SumResults(result_queue) = report

\* the report of a run with a failed connect, a failed write, and messages
\* sent and acknowledged
C19_Witness ==
  /\ mode = "burst"
  /\ Reported
  /\ Len(result_queue) >= 2
  /\ failed_connections >= 1
  /\ failed_sends >= 1
  /\ total_received >= 1
  /\ total_sent > total_received

\* C20: no progress line after the report has begun.  In burst mode the
\* monitor begins to print a progress line only while the controller is
\* still joining workers; once every worker has been joined, and while the
\* final report is printed, the monitor begins no further line.
C20_NoProgressAfterJoin ==
  [][(mode = "burst" /\ mon = "acquire" /\ mon' = "print") =>
       (ctl = "join" /\ joined \in Range(NUM_CLIENTS))]_vars

====
